---- MODULE Spec2Model ----
(***************************************************************************)
(* Model of SmartSeamInvocation.get_seam_line (src/smart_seam.py).         *)
(*                                                                         *)
(* Arrays are records [rows, cols, a] with a[y][x] indexed from 0 as in    *)
(* the source.  Floating-point values are kept as integers in multiples    *)
(* of 1/Unit; Unit is chosen so that every division the code performs      *)
(* (by 255.0, by 3.0, and by 2 inside np.gradient) is exact.  The inputs   *)
(* use the pixel values 0 and 255 only, for which the source's float       *)
(* arithmetic is exact as well.                                            *)
(***************************************************************************)
EXTENDS Integers, Sequences, FiniteSets

\* ---- bounds of the model ----
MaxRows == 3
MaxCols == 4
MaxFlips == 3

\* ---- scale and program constants ----
Unit == 2 * 3 * 255
\* fill_value=255.0 of shift()
FillValue == 255 * Unit
\* dtype="uint16" of lowest_energy_line
Uint16 == 65536
PixelValues == {0, 255}

VARIABLES i1, i2, rotate, pc, ia1, ia2, ia, max_y, max_x, energy, res, y, x,
          lowest_pos, lowest_value, lowest_energy_line, ypos, mask, image

vars == <<i1, i2, rotate, pc, ia1, ia2, ia, max_y, max_x, energy, res, y, x,
          lowest_pos, lowest_value, lowest_energy_line, ypos, mask, image>>

\* ---- helpers ----
Abs(v) == IF v < 0 THEN 0 - v ELSE v

Min2(a, b) == IF a < b THEN a ELSE b

Max2(a, b) == IF a < b THEN b ELSE a

Arr(r, c, f) == [rows |-> r, cols |-> c, a |-> f]

NoArr == Arr(0, 0, <<>>)

NoImage == [mode |-> "L", height |-> 0, width |-> 0, px |-> <<>>]

RECURSIVE SumSeq(_)
SumSeq(s) == IF s = <<>> THEN 0 ELSE Head(s) + SumSeq(Tail(s))

\* A PIL image whose pixels are the gray values f[y][x], in the given mode.
GrayImage(mode, h, w, f) ==
  [mode |-> mode, height |-> h, width |-> w,
   px |-> [yy \in 0..(h-1) |-> [xx \in 0..(w-1) |->
            IF mode = "L" THEN <<f[yy][xx]>>
                          ELSE <<f[yy][xx], f[yy][xx], f[yy][xx]>>]]]

\* np.array(i) / 255.0, then np.sum(., -1) / 3.0 when the mode is not "L"
ToIntensity(i) ==
  Arr(i.height, i.width,
      [yy \in 0..(i.height-1) |-> [xx \in 0..(i.width-1) |->
         IF i.mode # "L"
           THEN SumSeq([c \in 1..Len(i.px[yy][xx]) |->
                          (i.px[yy][xx][c] * Unit) \div 255]) \div 3
           ELSE (i.px[yy][xx][1] * Unit) \div 255]])

\* numpy broadcasting of two 2-d shapes
Broadcastable(p, q) ==
  /\ (p.rows = q.rows \/ p.rows = 1 \/ q.rows = 1)
  /\ (p.cols = q.cols \/ p.cols = 1 \/ q.cols = 1)

\* ia2 - ia1 (operands broadcast to the common shape)
Subtract(p, q) ==
  LET r == Max2(p.rows, q.rows)
      c == Max2(p.cols, q.cols)
      At(m, yy, xx) == m.a[IF m.rows = 1 THEN 0 ELSE yy][IF m.cols = 1 THEN 0 ELSE xx]
  IN Arr(r, c, [yy \in 0..(r-1) |-> [xx \in 0..(c-1) |-> At(p, yy, xx) - At(q, yy, xx)]])

\* np.rot90(m, 1): counter-clockwise
Rot90(m) ==
  Arr(m.cols, m.rows,
      [yy \in 0..(m.cols-1) |-> [xx \in 0..(m.rows-1) |-> m.a[xx][m.cols - 1 - yy]]])

\* mutant of Rot270: the mask is rotated counter-clockwise once more
Rot270_AsRot90(m) ==
  Arr(m.cols, m.rows,
      [yy \in 0..(m.cols-1) |-> [xx \in 0..(m.rows-1) |-> m.a[xx][m.cols - 1 - yy]]])

\* np.rot90(m, 3): clockwise
Rot270(m) ==
  Arr(m.cols, m.rows,
      [yy \in 0..(m.cols-1) |-> [xx \in 0..(m.rows-1) |-> m.a[m.rows - 1 - xx][yy]]])

\* the difference grid the seam search works on
Difference(p, q, rot) == IF rot THEN Rot90(Subtract(q, p)) ELSE Subtract(q, p)

\* mutant of Gradient1: a forward difference at interior elements
Gradient1_Forward(v, n, k) ==
  IF k = 0 THEN v[1] - v[0]
  ELSE IF k = n - 1 THEN v[n-1] - v[n-2]
  ELSE v[k+1] - v[k]

\* np.gradient of a 1-d sequence v[0..n-1], n >= 2, at index k
Gradient1(v, n, k) ==
  IF k = 0 THEN v[1] - v[0]
  ELSE IF k = n - 1 THEN v[n-1] - v[n-2]
  ELSE (v[k+1] - v[k-1]) \div 2

\* np.gradient raises ValueError unless every axis has at least 2 elements
GradientDefined(m) == m.rows >= 2 /\ m.cols >= 2

\* abs(np.gradient(ia)[1]) + abs(np.gradient(ia)[0])
Energy(m) ==
  Arr(m.rows, m.cols,
      [yy \in 0..(m.rows-1) |-> [xx \in 0..(m.cols-1) |->
         Abs(Gradient1(m.a[yy], m.cols, xx))
         + Abs(Gradient1([k \in 0..(m.rows-1) |-> m.a[k][xx]], m.rows, yy))]])

\* shift(arr, num) for num in {-1, 0, 1} on a row of length n
shift(arr, n, num) ==
  [xx \in 0..(n-1) |->
     IF num > 0 THEN (IF xx < num THEN FillValue ELSE arr[xx - num])
     ELSE IF num < 0 THEN (IF xx >= n + num THEN FillValue ELSE arr[xx - num])
     ELSE arr[xx]]

Min3(a, b, c) == Min2(a, Min2(b, c))

\* one iteration of the cost loop: res[y, :] = res[y-1, :] + min(row, rowl, rowr)
AccumulateRow(r, yy) ==
  LET row == r.a[yy]
      rowl == shift(row, r.cols, -1)
      rowr == shift(row, r.cols, 1)
  IN Arr(r.rows, r.cols,
         [r.a EXCEPT ![yy] = [xx \in 0..(r.cols-1) |->
                                r.a[yy-1][xx] + Min3(row[xx], rowl[xx], rowr[xx])]])

\* the cost loop from row yy to the last row
RECURSIVE AccumulateFrom(_, _)
AccumulateFrom(r, yy) ==
  IF yy >= r.rows THEN r ELSE AccumulateFrom(AccumulateRow(r, yy), yy + 1)

\* mutant of ScanStep: the candidate also replaces an equal lowest value
ScanStep_LessEq(r, xx, pos, val) ==
  LET candidate == r.a[r.rows - 1][xx]
  IN IF candidate <= val THEN <<xx, candidate>> ELSE <<pos, val>>

\* one iteration of the terminal scan: <<lowest_pos, lowest_value>> after column xx
ScanStep(r, xx, pos, val) ==
  LET candidate == r.a[r.rows - 1][xx]
  IN IF candidate < val THEN <<xx, candidate>> ELSE <<pos, val>>

RECURSIVE ScanFrom(_, _, _, _)
ScanFrom(r, xx, pos, val) ==
  IF xx >= r.cols THEN pos
  ELSE LET s == ScanStep(r, xx, pos, val) IN ScanFrom(r, xx + 1, s[1], s[2])

\* lowest_pos after the terminal selection
TerminalPos(r) == ScanFrom(r, 0, r.cols \div 2, r.a[r.rows - 1][r.cols \div 2])

\* mutant of Lpos: the left step skips a column
Lpos_TwoLeft(pos) == IF pos > 1 THEN pos - 2 ELSE 0

\* lpos = lowest_pos - 1 if lowest_pos > 1 else 0
Lpos(pos) == IF pos > 1 THEN pos - 1 ELSE 0

\* rpos = lowest_pos + 1 if lowest_pos < (max_x - 1) else (max_x - 1)
Rpos(pos, mx) == IF pos < mx - 1 THEN pos + 1 ELSE mx - 1

\* yvall < yval, where yvall is np.Inf unless lowest_pos > 1 (np.Inf < v is False)
LeftLower(e, yp, pos) == IF pos > 1 THEN e.a[yp][pos - 1] < e.a[yp][pos] ELSE FALSE

\* yvalr < yval, where yvalr is np.Inf unless lowest_pos < max_x - 1
RightLower(e, yp, pos) ==
  IF pos < e.cols - 1 THEN e.a[yp][pos + 1] < e.a[yp][pos] ELSE FALSE

\* the two consecutive ifs of the back-trace body; rpos is taken from the
\* position read at the top of the iteration
TracePos(e, yp, pos) ==
  LET afterLeft == IF LeftLower(e, yp, pos) THEN Lpos(pos) ELSE pos
  IN IF RightLower(e, yp, pos) THEN Rpos(pos, e.cols) ELSE afterLeft

\* a store into the uint16 array lowest_energy_line
StoreLine(line, yp, pos) == [line EXCEPT ![yp] = pos % Uint16]

\* np.empty([max_y], dtype="uint16") with the terminal column stored in the
\* last entry; the other entries are written before they are read
InitLine(my, pos) == StoreLine([yy \in 0..(my-1) |-> 0], my - 1, pos)

\* one iteration of the back-trace loop
TraceStep(e, line, yp) == StoreLine(line, yp, TracePos(e, yp, line[yp + 1]))

RECURSIVE TraceFrom(_, _, _)
TraceFrom(e, line, yp) ==
  IF yp < 0 THEN line ELSE TraceFrom(e, TraceStep(e, line, yp), yp - 1)

\* np.zeros_like(ia)
Zeros(m) == Arr(m.rows, m.cols, [yy \in 0..(m.rows-1) |-> [xx \in 0..(m.cols-1) |-> 0]])

\* mutant of FillRow: the seam column itself is filled as well
FillRow_Inclusive(m, line, yp) ==
  Arr(m.rows, m.cols,
      [m.a EXCEPT ![yp] = [xx \in 0..(m.cols-1) |->
                             IF xx <= line[yp] THEN 1 ELSE m.a[yp][xx]]])

\* mask[ypos, 0:to_fill] = 1
FillRow(m, line, yp) ==
  Arr(m.rows, m.cols,
      [m.a EXCEPT ![yp] = [xx \in 0..(m.cols-1) |->
                             IF xx < line[yp] THEN 1 ELSE m.a[yp][xx]]])

RECURSIVE FillFrom(_, _, _)
FillFrom(m, line, yp) ==
  IF yp >= m.rows THEN m ELSE FillFrom(FillRow(m, line, yp), line, yp + 1)

\* the rotation of the mask back to the orientation of the inputs
Unrotate(m, rot) == IF rot THEN Rot270(m) ELSE m

\* Image.fromarray((mask * 255.0).astype("uint8"))
FromArray(m) ==
  [mode |-> "L", height |-> m.rows, width |-> m.cols,
   px |-> [yy \in 0..(m.rows-1) |-> [xx \in 0..(m.cols-1) |->
            <<(m.a[yy][xx] * 255) % 256>>]]]

\* get_seam_line as a function of its arguments: the image it returns, or
\* raised = TRUE when numpy raises ValueError
get_seam_line(a, b, rot) ==
  LET p == ToIntensity(a)
      q == ToIntensity(b)
  IN IF ~Broadcastable(p, q) THEN [raised |-> TRUE, image |-> NoImage]
     ELSE LET d == Difference(p, q, rot)
          IN IF ~GradientDefined(d) THEN [raised |-> TRUE, image |-> NoImage]
             ELSE LET e == Energy(d)
                      r == AccumulateFrom(e, 1)
                      line == TraceFrom(e, InitLine(d.rows, TerminalPos(r)), d.rows - 2)
                      m == FillFrom(Zeros(d), line, 0)
                  IN [raised |-> FALSE, image |-> FromArray(Unrotate(m, rot))]

\* ---- the state machine: one call of get_seam_line ----
Shapes == (1..MaxRows) \X (1..MaxCols)

Positions(s) == (0..(s[1]-1)) \X (0..(s[2]-1))

\* the subsets of S of at most k elements
RECURSIVE SubsetsUpTo(_, _)
SubsetsUpTo(S, k) ==
  IF k = 0 THEN {{}}
  ELSE LET prev == SubsetsUpTo(S, k - 1)
       IN prev \cup {T \cup {e} : T \in prev, e \in S}

OtherValue(b) == CHOOSE w \in PixelValues : w # b

\* The inputs: i2 is an RGB image of gray pixels, a background value with at
\* most MaxFlips pixels of the other value; i1 is a flat grayscale image.
\* Images of different shapes are tried with a flat i2.
Init ==
  /\ \E s2 \in Shapes :
       \E F \in SubsetsUpTo(Positions(s2), MaxFlips) :
         \E s1 \in Shapes, v \in PixelValues, b \in PixelValues :
           /\ (s1 = s2 \/ F = {})
           /\ i1 = GrayImage("L", s1[1], s1[2],
                             [yy \in 0..(s1[1]-1) |-> [xx \in 0..(s1[2]-1) |-> v]])
           /\ i2 = GrayImage("RGB", s2[1], s2[2],
                             [yy \in 0..(s2[1]-1) |-> [xx \in 0..(s2[2]-1) |->
                                IF <<yy, xx>> \in F THEN OtherValue(b) ELSE b]])
  /\ rotate \in BOOLEAN
  /\ pc = "convert"
  /\ ia1 = NoArr /\ ia2 = NoArr /\ ia = NoArr
  /\ max_y = 0 /\ max_x = 0
  /\ energy = NoArr /\ res = NoArr
  /\ y = 0 /\ x = 0
  /\ lowest_pos = 0 /\ lowest_value = 0
  /\ lowest_energy_line = <<>>
  /\ ypos = 0
  /\ mask = NoArr
  /\ image = NoImage

\* lines 41-47
Convert ==
  /\ pc = "convert"
  /\ ia1' = ToIntensity(i1)
  /\ ia2' = ToIntensity(i2)
  /\ pc' = "subtract"
  /\ UNCHANGED <<i1, i2, rotate, ia, max_y, max_x, energy, res, y, x, lowest_pos,
                 lowest_value, lowest_energy_line, ypos, mask, image>>

\* lines 49-56, operands of compatible shapes
SubtractOk ==
  /\ pc = "subtract"
  /\ Broadcastable(ia1, ia2)
  /\ ia' = Difference(ia1, ia2, rotate)
  /\ max_y' = ia'.rows
  /\ max_x' = ia'.cols
  /\ pc' = "gradient"
  /\ UNCHANGED <<i1, i2, rotate, ia1, ia2, energy, res, y, x, lowest_pos,
                 lowest_value, lowest_energy_line, ypos, mask, image>>

\* line 49: numpy raises ValueError (operands could not be broadcast together)
SubtractRaise ==
  /\ pc = "subtract"
  /\ ~Broadcastable(ia1, ia2)
  /\ pc' = "raised"
  /\ UNCHANGED <<i1, i2, rotate, ia1, ia2, ia, max_y, max_x, energy, res, y, x,
                 lowest_pos, lowest_value, lowest_energy_line, ypos, mask, image>>

\* lines 61-63
GradientOk ==
  /\ pc = "gradient"
  /\ GradientDefined(ia)
  /\ energy' = Energy(ia)
  /\ res' = energy'
  /\ y' = 1
  /\ pc' = "accumulate"
  /\ UNCHANGED <<i1, i2, rotate, ia1, ia2, ia, max_y, max_x, x, lowest_pos,
                 lowest_value, lowest_energy_line, ypos, mask, image>>

\* line 61: np.gradient raises ValueError on an axis shorter than 2
GradientRaise ==
  /\ pc = "gradient"
  /\ ~GradientDefined(ia)
  /\ pc' = "raised"
  /\ UNCHANGED <<i1, i2, rotate, ia1, ia2, ia, max_y, max_x, energy, res, y, x,
                 lowest_pos, lowest_value, lowest_energy_line, ypos, mask, image>>

\* lines 65-69, one iteration
Accumulate ==
  /\ pc = "accumulate"
  /\ y < max_y
  /\ res' = AccumulateRow(res, y)
  /\ y' = y + 1
  /\ UNCHANGED <<i1, i2, rotate, pc, ia1, ia2, ia, max_y, max_x, energy, x,
                 lowest_pos, lowest_value, lowest_energy_line, ypos, mask, image>>

\* loop exit, lines 71-72
AccumulateDone ==
  /\ pc = "accumulate"
  /\ y >= max_y
  /\ lowest_pos' = max_x \div 2
  /\ lowest_value' = res.a[max_y - 1][lowest_pos']
  /\ x' = 0
  /\ pc' = "scan"
  /\ UNCHANGED <<i1, i2, rotate, ia1, ia2, ia, max_y, max_x, energy, res, y,
                 lowest_energy_line, ypos, mask, image>>

\* lines 73-77, one iteration
Scan ==
  /\ pc = "scan"
  /\ x < max_x
  /\ LET s == ScanStep(res, x, lowest_pos, lowest_value)
     IN lowest_pos' = s[1] /\ lowest_value' = s[2]
  /\ x' = x + 1
  /\ UNCHANGED <<i1, i2, rotate, pc, ia1, ia2, ia, max_y, max_x, energy, res, y,
                 lowest_energy_line, ypos, mask, image>>

\* loop exit, lines 80-82
ScanDone ==
  /\ pc = "scan"
  /\ x >= max_x
  /\ lowest_energy_line' = InitLine(max_y, lowest_pos)
  /\ ypos' = max_y - 2
  /\ pc' = "trace"
  /\ UNCHANGED <<i1, i2, rotate, ia1, ia2, ia, max_y, max_x, energy, res, y, x,
                 lowest_pos, lowest_value, mask, image>>

\* lines 84-97, one iteration
Trace ==
  /\ pc = "trace"
  /\ ypos >= 0
  /\ lowest_energy_line' = TraceStep(energy, lowest_energy_line, ypos)
  /\ lowest_pos' = lowest_energy_line'[ypos]
  /\ ypos' = ypos - 1
  /\ UNCHANGED <<i1, i2, rotate, pc, ia1, ia2, ia, max_y, max_x, energy, res, y, x,
                 lowest_value, mask, image>>

\* loop exit, line 99
TraceDone ==
  /\ pc = "trace"
  /\ ypos < 0
  /\ mask' = Zeros(ia)
  /\ ypos' = 0
  /\ pc' = "fill"
  /\ UNCHANGED <<i1, i2, rotate, ia1, ia2, ia, max_y, max_x, energy, res, y, x,
                 lowest_pos, lowest_value, lowest_energy_line, image>>

\* lines 101-103, one iteration
Fill ==
  /\ pc = "fill"
  /\ ypos < max_y
  /\ mask' = FillRow(mask, lowest_energy_line, ypos)
  /\ ypos' = ypos + 1
  /\ UNCHANGED <<i1, i2, rotate, pc, ia1, ia2, ia, max_y, max_x, energy, res, y, x,
                 lowest_pos, lowest_value, lowest_energy_line, image>>

\* loop exit, lines 105-110
Return ==
  /\ pc = "fill"
  /\ ypos >= max_y
  /\ mask' = Unrotate(mask, rotate)
  /\ image' = FromArray(mask')
  /\ pc' = "done"
  /\ UNCHANGED <<i1, i2, rotate, ia1, ia2, ia, max_y, max_x, energy, res, y, x,
                 lowest_pos, lowest_value, lowest_energy_line, ypos>>

Next ==
  \/ Convert
  \/ SubtractOk
  \/ SubtractRaise
  \/ GradientOk
  \/ GradientRaise
  \/ Accumulate
  \/ AccumulateDone
  \/ Scan
  \/ ScanDone
  \/ Trace
  \/ TraceDone
  \/ Fill
  \/ Return

Spec == Init /\ [][Next]_vars

\* ---- vocabulary of the properties ----
SameShape == i1.height = i2.height /\ i1.width = i2.width

Ended == pc \in {"done", "raised"}

\* the energy grid exists
HasEnergy == pc \in {"accumulate", "scan", "trace", "fill", "done"}

\* the cost-accumulation loop has finished
HasCost == pc \in {"scan", "trace", "fill", "done"}

\* the terminal column has been selected and stored
HasTerminal == pc \in {"trace", "fill", "done"}

\* the back-trace loop has finished
HasPath == pc \in {"fill", "done"}

Rows == 0..(max_y - 1)

Cols == 0..(max_x - 1)

\* the rows ypos for which the back-trace body has already run
TracedRows == IF pc = "trace" THEN (ypos + 1)..(max_y - 2) ELSE 0..(max_y - 2)

LastRow == res.a[max_y - 1]

LastRowMin(c) == \A xx \in Cols : LastRow[c] <= LastRow[xx]

Terminal == lowest_energy_line[max_y - 1]

\* the difference grid has the same value at every pixel
FlatDiff == \A yy \in Rows, xx \in Cols : ia.a[yy][xx] = ia.a[0][0]

\* the difference grid is zero except for one non-zero value in column k of every row
Spike(k) ==
  /\ ia.a[0][k] # 0
  /\ \A yy \in Rows, xx \in Cols :
       ia.a[yy][xx] = IF xx = k THEN ia.a[0][k] ELSE 0

\* a PIL image rotated by 90 degrees counter-clockwise
RotImage90(i) ==
  [mode |-> i.mode, height |-> i.width, width |-> i.height,
   px |-> [yy \in 0..(i.width-1) |-> [xx \in 0..(i.height-1) |->
            i.px[xx][i.width - 1 - yy]]]]

\* a PIL image rotated by 270 degrees counter-clockwise
RotImage270(i) ==
  [mode |-> i.mode, height |-> i.width, width |-> i.height,
   px |-> [yy \in 0..(i.width-1) |-> [xx \in 0..(i.height-1) |->
            i.px[i.height - 1 - xx][yy]]]]

\* ---- C1 ----
\* C1: every call on two images of the same size (rows >= 1, cols >= 1), with
\* either value of rotate, returns a mask of the size of the inputs whose
\* elements are all 0 or 255.
C1_MaskForEveryInput ==
  (SameShape /\ Ended) =>
     /\ pc = "done"
     /\ image.height = i1.height
     /\ image.width = i1.width
     /\ \A yy \in 0..(image.height-1), xx \in 0..(image.width-1) :
          image.px[yy][xx][1] \in {0, 255}

\* ---- C2 ----
\* C2: consecutive entries of the back-traced seam path differ by at most one
\* column, also where the neighbour index is clamped.
C2_Locality ==
  HasTerminal =>
    \A yy \in TracedRows :
      Abs(lowest_energy_line[yy] - lowest_energy_line[yy + 1]) <= 1

\* a finished path that moves left out of the last column and moves right out
\* of column 0 or 1
C2_Witness ==
  /\ HasPath
  /\ \E yy \in TracedRows :
       /\ lowest_energy_line[yy + 1] = max_x - 1
       /\ lowest_energy_line[yy] = max_x - 2
  /\ \E yy \in TracedRows :
       /\ lowest_energy_line[yy + 1] <= 1
       /\ lowest_energy_line[yy] = lowest_energy_line[yy + 1] + 1

\* ---- C3 ----
\* C3: a Top/Bottom call on A, B ends as the Left/Right call on A and B rotated
\* by 90 degrees does, and its mask is that call's mask rotated by 270 degrees.
C3_RotationConsistency ==
  (Ended /\ rotate) =>
    LET r == get_seam_line(RotImage90(i1), RotImage90(i2), FALSE)
    IN /\ (pc = "raised") = r.raised
       /\ pc = "done" => image = RotImage270(r.image)

\* a Top/Bottom call on non-square images returning a mask whose seam is not straight
C3_Witness ==
  /\ pc = "done"
  /\ rotate
  /\ image.height # image.width
  /\ \E x1 \in 0..(image.width-1), x2 \in 0..(image.width-1) :
       [yy \in 0..(image.height-1) |-> image.px[yy][x1]]
         # [yy \in 0..(image.height-1) |-> image.px[yy][x2]]

\* ---- C4 ----
\* C4: when the difference grid is constant, energy and cumulative cost are zero
\* everywhere, the terminal column is cols // 2, every path entry is cols // 2,
\* and without rotation the mask is 255 in columns [0, cols // 2) and 0 elsewhere.
C4_FlatDifference ==
  (HasEnergy /\ FlatDiff) =>
    /\ \A yy \in Rows, xx \in Cols : energy.a[yy][xx] = 0 /\ res.a[yy][xx] = 0
    /\ HasTerminal => Terminal = max_x \div 2
    /\ HasPath => \A yy \in Rows : lowest_energy_line[yy] = max_x \div 2
    /\ (pc = "done" /\ ~rotate) =>
         \A yy \in Rows, xx \in Cols :
           image.px[yy][xx][1] = IF xx < max_x \div 2 THEN 255 ELSE 0

\* image A all-zero, image B all-one, 4 columns by 3 rows, Left/Right
C4_Witness ==
  /\ pc = "done"
  /\ ~rotate
  /\ FlatDiff
  /\ ia.a[0][0] = Unit
  /\ max_x = 4
  /\ max_y = 3
  /\ SameShape

\* ---- C5 ----
\* C5 as stated: for a spike confined to column k, the terminal column and every
\* path entry are k or a column adjacent to k.
C5_SpikeTracked ==
  \A k \in Cols :
    (HasTerminal /\ Spike(k)) =>
      /\ Abs(Terminal - k) <= 1
      /\ HasPath => \A yy \in Rows : Abs(lowest_energy_line[yy] - k) <= 1

\* C5 amended: for a spike confined to column k, the terminal column is a
\* minimum-cost column of the last row, with three or more columns its energy
\* is zero in every row, it is k when k = cols // 2 is an interior column, and
\* the back-trace never moves: every path entry equals the terminal column.
C5_SpikeAmended ==
  \A k \in Cols :
    (HasTerminal /\ Spike(k)) =>
      /\ LastRowMin(Terminal)
      /\ max_x >= 3 => \A yy \in Rows : energy.a[yy][Terminal] = 0
      /\ (k = max_x \div 2 /\ 0 < k /\ k < max_x - 1) => Terminal = k
      /\ HasPath => \A yy \in Rows : lowest_energy_line[yy] = Terminal

\* a spike whose seam runs two or more columns away from it
C5_Witness ==
  /\ pc = "done"
  /\ \E k \in Cols : Spike(k) /\ Abs(Terminal - k) >= 2

\* ---- C6 ----
\* C6: a call on images of different sizes raises before any difference, energy,
\* cost or mask is computed, and never returns a mask.
C6_MismatchRejected ==
  ~SameShape =>
    /\ pc \in {"convert", "subtract", "raised"}
    /\ ia = NoArr /\ energy = NoArr /\ mask = NoArr /\ image = NoImage

\* ---- C7 ----
\* C7: after the cost loop, res[0][x] = energy[0][x] and, for y > 0,
\* res[y][x] = energy[y][x] + min(res[y-1][x-1], res[y-1][x], res[y-1][x+1]),
\* a neighbour outside [0, cols) counting as the sentinel.
C7_CostRecurrence ==
  HasCost =>
    LET prev(yy, xx) == IF xx \in Cols THEN res.a[yy - 1][xx] ELSE FillValue
    IN /\ \A xx \in Cols : res.a[0][xx] = energy.a[0][xx]
       /\ \A yy \in 1..(max_y - 1), xx \in Cols :
            res.a[yy][xx] = energy.a[yy][xx]
                            + Min3(prev(yy, xx - 1), prev(yy, xx), prev(yy, xx + 1))

\* ---- C8 ----
\* C8: in every back-trace step, with e the energy at the current column and eL,
\* eR those of its in-range neighbours, the path moves left iff eL < e and not
\* eR < e, moves right iff eR < e and not eL < e, and otherwise stays.
C8_ExclusiveStep ==
  HasTerminal =>
    \A yy \in TracedRows :
      LET cur == lowest_energy_line[yy + 1]
          new == lowest_energy_line[yy]
          e == energy.a[yy][cur]
          lowL == cur > 0 /\ energy.a[yy][cur - 1] < e
          lowR == cur < max_x - 1 /\ energy.a[yy][cur + 1] < e
      IN /\ (new = cur - 1) = (lowL /\ ~lowR)
         /\ (new = cur + 1) = (lowR /\ ~lowL)
         /\ (~(lowL /\ ~lowR) /\ ~(lowR /\ ~lowL)) => new = cur

\* ---- C9 ----
\* C9 as stated: the terminal column attains the minimum cost of the last row
\* and is the leftmost column attaining it, except that it is cols // 2 when
\* every cost of the row is equal.
C9_LeftmostMinimum ==
  HasTerminal =>
    IF \A xx \in Cols : LastRow[xx] = LastRow[0]
      THEN Terminal = max_x \div 2
      ELSE /\ LastRowMin(Terminal)
           /\ \A xx \in Cols : xx < Terminal => LastRow[xx] > LastRow[Terminal]

\* C9 amended: the terminal column attains the minimum cost of the last row; it
\* is cols // 2 whenever column cols // 2 attains that minimum, and otherwise
\* the leftmost column attaining it.
C9_MiddleThenLeftmost ==
  HasTerminal =>
    /\ LastRowMin(Terminal)
    /\ IF LastRowMin(max_x \div 2)
         THEN Terminal = max_x \div 2
         ELSE \A xx \in Cols : xx < Terminal => LastRow[xx] > LastRow[Terminal]

\* the middle column ties for the minimum with a column to its left, and the
\* costs of the row are not all equal
C9_Witness ==
  /\ HasTerminal
  /\ LastRowMin(max_x \div 2)
  /\ \E xx \in Cols : xx < max_x \div 2 /\ LastRow[xx] = LastRow[max_x \div 2]
  /\ \E xx \in Cols : LastRow[xx] # LastRow[0]
  /\ Terminal = max_x \div 2

\* ---- C10 ----
\* C10: a neighbour counts as infinite only when it is missing; from column 1
\* (cols >= 3), with the energy at column 0 strictly lower than the current
\* energy and the right neighbour's not lower, the path moves to column 0.
C10_LeftFromColumnOne ==
  HasTerminal =>
    \A yy \in TracedRows :
      LET cur == lowest_energy_line[yy + 1]
          e == energy.a[yy][cur]
      IN (cur = 1 /\ max_x >= 3 /\ energy.a[yy][0] < e /\ ~(energy.a[yy][2] < e))
           => lowest_energy_line[yy] = 0

====
